---------------------------- MODULE Spec2Model ----------------------------
(***************************************************************************)
(* A model of history_search.py: profile discovery, the metadata cache,    *)
(* the snapshot copy and fetch of history rows, scoring, ranking and the   *)
(* search over several history databases.                                  *)
(*                                                                         *)
(* A Python str is a sequence of one-character strings.  A value that may  *)
(* be None / SQL NULL is a sequence of length at most one: <<>> is None    *)
(* and <<v>> is the value v.                                               *)
(***************************************************************************)
EXTENDS Integers, Sequences, FiniteSets, TLC

VARIABLES
    db,        \* history file of each profile: "missing", "corrupt" or its rows
    tmpDirs,   \* temporary directories that exist on disk
    outcome,   \* what the last search_history call did
    call,      \* the last _score_row / _rank_entries call and its result
    fs,        \* a browser configuration root: its entries and its Local State
    dbs,       \* what the last _list_history_dbs_in_dir call returned
    cache,     \* the lru_cache of get_profile_metadata, most recent first
    ret,       \* the last get_profile_metadata call and its result
    hist       \* history of the calls for the watched path

searchVars == <<db, tmpDirs, outcome>>
rankVars == <<call>>
locatorVars == <<fs, dbs>>
metaVars == <<cache, ret, hist>>
vars == <<db, tmpDirs, outcome, call, fs, dbs, cache, ret, hist>>

None == <<>>
Some(v) == <<v>>
\* Python's `x or 0` for an integer that may be None
OrZero(x) == IF x = None THEN 0 ELSE x[1]
\* Python's `s or ''` for a str that may be None
OrEmpty(s) == IF s = None THEN <<>> ELSE s[1]

Min(a, b) == IF a <= b THEN a ELSE b
Max(a, b) == IF a >= b THEN a ELSE b

(***************************************************************************)
(* Text primitives                                                         *)
(***************************************************************************)
UpperCase ==
    {"A", "B", "C", "D", "E", "F", "G", "H", "I", "J", "K", "L", "M",
     "N", "O", "P", "Q", "R", "S", "T", "U", "V", "W", "X", "Y", "Z"}
LowerOf ==
    ("A" :> "a") @@ ("B" :> "b") @@ ("C" :> "c") @@ ("D" :> "d") @@ ("E" :> "e") @@
    ("F" :> "f") @@ ("G" :> "g") @@ ("H" :> "h") @@ ("I" :> "i") @@ ("J" :> "j") @@
    ("K" :> "k") @@ ("L" :> "l") @@ ("M" :> "m") @@ ("N" :> "n") @@ ("O" :> "o") @@
    ("P" :> "p") @@ ("Q" :> "q") @@ ("R" :> "r") @@ ("S" :> "s") @@ ("T" :> "t") @@
    ("U" :> "u") @@ ("V" :> "v") @@ ("W" :> "w") @@ ("X" :> "x") @@ ("Y" :> "y") @@
    ("Z" :> "z")
LowerChar(c) == IF c \in UpperCase THEN LowerOf[c] ELSE c
\* str.lower()
Lower(s) == [i \in 1..Len(s) |-> LowerChar(s[i])]

\* str.startswith(p)
StartsWith(s, p) == Len(p) <= Len(s) /\ SubSeq(s, 1, Len(p)) = p
\* p in s
Contains(s, p) ==
    \E i \in 0..(Len(s) - Len(p)) : SubSeq(s, i + 1, i + Len(p)) = p
\* first position >= from holding a character of cs, Len(s) + 1 if none
RECURSIVE FindAny(_, _, _)
FindAny(s, cs, from) ==
    IF from > Len(s) THEN Len(s) + 1
    ELSE IF s[from] \in cs THEN from
    ELSE FindAny(s, cs, from + 1)

\* The characters TOKEN_SPLIT_RE does not split on: [0-9a-z] and the
\* Cyrillic letters, with re.IGNORECASE
TokenChars ==
    {"0", "1", "2", "3", "4", "5", "6", "7", "8", "9",
     "a", "b", "c", "d", "e", "f", "g", "h", "i", "j", "k", "l", "m",
     "n", "o", "p", "q", "r", "s", "t", "u", "v", "w", "x", "y", "z"}
    \cup UpperCase

\* TOKEN_SPLIT_RE.split(s): the pieces between the runs of separator
\* characters, empty pieces at the ends included
RECURSIVE SplitFrom(_, _, _, _)
SplitFrom(s, i, cur, inSep) ==
    IF i > Len(s) THEN <<cur>>
    ELSE IF s[i] \in TokenChars
         THEN SplitFrom(s, i + 1, Append(cur, s[i]), FALSE)
         ELSE IF inSep THEN SplitFrom(s, i + 1, cur, TRUE)
              ELSE <<cur>> \o SplitFrom(s, i + 1, <<>>, TRUE)
TOKEN_SPLIT(s) == SplitFrom(s, 1, <<>>, FALSE)

_word_startswith(text, prefix) ==
    IF text = <<>> THEN FALSE
    ELSE LET tokens == TOKEN_SPLIT(Lower(text))
         IN  \E k \in 1..Len(tokens) :
                tokens[k] # <<>> /\ StartsWith(tokens[k], prefix)

(***************************************************************************)
(* urllib.parse.urlparse, for the two components _score_row reads          *)
(***************************************************************************)
SchemeChars == TokenChars \cup {"+", "-", "."}
urlparse(url) ==
    LET colon == FindAny(url, {":"}, 1)
        hasScheme == /\ colon <= Len(url)
                     /\ colon > 1
                     /\ url[1] \in TokenChars \ {"0", "1", "2", "3", "4",
                                                  "5", "6", "7", "8", "9"}
                     /\ \A i \in 1..(colon - 1) : url[i] \in SchemeChars
        rest1 == IF hasScheme THEN SubSeq(url, colon + 1, Len(url)) ELSE url
        hasNetloc == StartsWith(rest1, <<"/", "/">>)
        delim == FindAny(rest1, {"/", "?", "#"}, 3)
        netloc == IF hasNetloc THEN SubSeq(rest1, 3, delim - 1) ELSE <<>>
        rest2 == IF hasNetloc THEN SubSeq(rest1, delim, Len(rest1)) ELSE rest1
        pathEnd == FindAny(rest2, {"?", "#"}, 1)
    IN  [netloc |-> netloc, path |-> SubSeq(rest2, 1, pathEnd - 1)]

(***************************************************************************)
(* _score_row                                                              *)
(***************************************************************************)
TITLE_STARTS == 400
TITLE_WORD == 260
TITLE_SUBSTR == 80
HOST_STARTS == 350
HOST_SUBSTR == 140
PATH_STARTS == 120
PATH_WORD == 90
PATH_SUBSTR == 40
TYPED_CAP == 20
TYPED_WEIGHT == 15
VISIT_CAP == 50
VISIT_WEIGHT == 2

\* a scoring that adds every tier of a field that applies
_score_row_stacked(url, title, visit_count, typed_count, query_lower) ==
    LET title_lower == Lower(OrEmpty(title))
        parsed == urlparse(url)
        host == Lower(parsed.netloc)
        path == Lower(parsed.path)
    IN    (IF StartsWith(title_lower, query_lower) THEN TITLE_STARTS ELSE 0)
        + (IF _word_startswith(title_lower, query_lower) THEN TITLE_WORD ELSE 0)
        + (IF Contains(title_lower, query_lower) THEN TITLE_SUBSTR ELSE 0)
        + (IF StartsWith(host, query_lower) THEN HOST_STARTS ELSE 0)
        + (IF Contains(host, query_lower) THEN HOST_SUBSTR ELSE 0)
        + (IF StartsWith(path, query_lower) THEN PATH_STARTS ELSE 0)
        + (IF _word_startswith(path, query_lower) THEN PATH_WORD ELSE 0)
        + (IF Contains(path, query_lower) THEN PATH_SUBSTR ELSE 0)
        + Min(OrZero(typed_count), TYPED_CAP) * TYPED_WEIGHT
        + Min(OrZero(visit_count), VISIT_CAP) * VISIT_WEIGHT

_score_row(url, title, visit_count, typed_count, query_lower) ==
    LET title_lower == Lower(OrEmpty(title))
        parsed == urlparse(url)
        host == Lower(parsed.netloc)
        path == Lower(parsed.path)
        s1 == IF StartsWith(title_lower, query_lower) THEN TITLE_STARTS
              ELSE IF _word_startswith(title_lower, query_lower) THEN TITLE_WORD
              ELSE IF Contains(title_lower, query_lower) THEN TITLE_SUBSTR
              ELSE 0
        s2 == IF StartsWith(host, query_lower) THEN HOST_STARTS
              ELSE IF Contains(host, query_lower) THEN HOST_SUBSTR
              ELSE 0
        s3 == IF StartsWith(path, query_lower) THEN PATH_STARTS
              ELSE IF _word_startswith(path, query_lower) THEN PATH_WORD
              ELSE IF Contains(path, query_lower) THEN PATH_SUBSTR
              ELSE 0
        typed == OrZero(typed_count)
        visits == OrZero(visit_count)
    IN  s1 + s2 + s3 + Min(typed, TYPED_CAP) * TYPED_WEIGHT
                     + Min(visits, VISIT_CAP) * VISIT_WEIGHT

(***************************************************************************)
(* list.sort(key=..., reverse=True): descending by key, and stable, so     *)
(* elements with equal keys keep the order they had                        *)
(***************************************************************************)
\* lexicographic order on the keys, which are tuples of integers
RECURSIVE KeyLess(_, _)
KeyLess(a, b) ==
    IF a = <<>> \/ b = <<>> THEN FALSE
    ELSE IF a[1] # b[1] THEN a[1] < b[1]
    ELSE KeyLess(Tail(a), Tail(b))

\* the list of (key, element) pairs of a list
Keyed(s, Key(_)) == [i \in 1..Len(s) |-> [key |-> Key(s[i]), item |-> s[i]]]

RECURSIVE InsertDesc(_, _)
InsertDesc(sorted, x) ==
    IF sorted = <<>> THEN <<x>>
    ELSE IF KeyLess(Head(sorted).key, x.key)
         THEN <<x>> \o sorted
         ELSE <<Head(sorted)>> \o InsertDesc(Tail(sorted), x)

\* an insertion that puts an element before the elements of equal key
RECURSIVE InsertDescFront(_, _)
InsertDescFront(sorted, x) ==
    IF sorted = <<>> THEN <<x>>
    ELSE IF KeyLess(x.key, Head(sorted).key)
         THEN <<Head(sorted)>> \o InsertDescFront(Tail(sorted), x)
         ELSE <<x>> \o sorted

RECURSIVE SortFrom(_, _, _)
SortFrom(keyed, i, acc) ==
    IF i > Len(keyed) THEN acc
    ELSE SortFrom(keyed, i + 1, InsertDesc(acc, keyed[i]))

RECURSIVE SortFromUnstable(_, _, _)
SortFromUnstable(keyed, i, acc) ==
    IF i > Len(keyed) THEN acc
    ELSE SortFromUnstable(keyed, i + 1, InsertDescFront(acc, keyed[i]))

\* a descending sort that puts equal keys in reverse arrival order
SortReverseUnstable(keyed) ==
    LET r == SortFromUnstable(keyed, 1, <<>>)
    IN  [i \in 1..Len(r) |-> r[i].item]

SortReverse(keyed) ==
    LET r == SortFrom(keyed, 1, <<>>)
    IN  [i \in 1..Len(r) |-> r[i].item]

\* s[:n] for n >= 0
Take(s, n) == SubSeq(s, 1, Min(n, Len(s)))

(***************************************************************************)
(* _rank_entries                                                           *)
(***************************************************************************)
RecencyKey(e) == <<OrZero(e.last_visit_time)>>
ScoreOf(e, query_lower) ==
    _score_row(e.url, e.title, e.visit_count, e.typed_count, query_lower)

\* a ranking that sorts on the score alone
_rank_entries_score_only(entries, query, limit) ==
    IF entries = <<>> THEN <<>>
    ELSE IF query = <<>>
    THEN Take(SortReverse(Keyed(entries, RecencyKey)), limit)
    ELSE LET query_lower == Lower(query)
             ScoredKey(e) == <<ScoreOf(e, query_lower)>>
         IN  Take(SortReverse(Keyed(entries, ScoredKey)), limit)

_rank_entries(entries, query, limit) ==
    IF entries = <<>> THEN <<>>
    ELSE IF query = <<>>
    THEN Take(SortReverse(Keyed(entries, RecencyKey)), limit)
    ELSE LET query_lower == Lower(query)
             ScoredKey(e) ==
                 <<ScoreOf(e, query_lower), OrZero(e.last_visit_time)>>
         IN  Take(SortReverse(Keyed(entries, ScoredKey)), limit)

(***************************************************************************)
(* The scoring and ranking functions applied to drawn inputs               *)
(***************************************************************************)
ScoreUrls == {
    <<"h", "t", "t", "p", ":", "/", "/", "g", "i", "t", "h", "u", "b", ".", "c", "o", "m", "/", "m", "y", "/", "g", "i", "t", "-", "r", "e", "p", "o">>,
    <<"h", "t", "t", "p", ":", "/", "/", "l", "e", "g", "i", "t", ".", "o", "r", "g", "/", "g", "i", "t">>,
    <<"h", "t", "t", "p", ":", "/", "/", "a", ".", "b", "/", "l", "e", "g", "i", "t">>,
    <<"g", "i", "t", "/", "x">>,
    <<"h", "t", "t", "p", ":", "/", "/", "b", ".", "o", "r", "g", "/", "?", "g", "i", "t", "#", "g", "i", "t">>}
ScoreTitles == {None} \cup {Some(t) : t \in {
    <<"G", "i", "t", "H", "u", "b">>,
    <<"M", "y", " ", "G", "i", "t", " ", "P", "a", "g", "e">>,
    <<"M", "y", " ", "L", "e", "g", "i", "t", " ", "P", "a", "g", "e">>,
    <<"B", "l", "o", "g">>}}
\* lower-cased, non-empty queries
ScoreQueries == {
    <<"g", "i", "t">>,
    <<"g">>,
    <<"m", "y", " ", "g">>,
    <<"/", "m", "y">>,
    <<"i", "t">>}
VisitCounts == {None, Some(0), Some(3), Some(50), Some(1000)}
TypedCounts == {None, Some(0), Some(1), Some(20), Some(25)}

MaxEntries == 3
MaxRankLimit == 3
RankContents ==
    {[url |-> <<"h", "t", "t", "p", ":", "/", "/", "g", "i", "t", ".", "i", "o", "/">>, title |-> Some(<<"G", "i", "t">>),
      visit_count |-> Some(3), typed_count |-> Some(1)],
     [url |-> <<"h", "t", "t", "p", ":", "/", "/", "b", ".", "o", "r", "g", "/", "l", "e", "g", "i", "t">>, title |-> None,
      visit_count |-> Some(0), typed_count |-> None]}
RankTimes == {None, Some(100), Some(200)}
RankRows ==
    {[url |-> c.url, title |-> c.title, visit_count |-> c.visit_count,
      last_visit_time |-> t, typed_count |-> c.typed_count] :
        c \in RankContents, t \in RankTimes}
RankQueries == {<<>>, <<"g", "i", "t">>, <<"G">>}
SeqsUpTo(S, n) == UNION {[1..k -> S] : k \in 0..n}

NoCall == [kind |-> "none", url |-> <<>>, title |-> None, visit_count |-> None,
           typed_count |-> None, query |-> <<>>, entries |-> <<>>, limit |-> 0,
           done |-> FALSE, score |-> 0, ranked |-> <<>>]

ScoreRow ==
    /\ call.kind = "score" /\ ~call.done
    /\ call' = [call EXCEPT !.done = TRUE,
                  !.score = _score_row(call.url, call.title, call.visit_count,
                                       call.typed_count, call.query)]
    /\ UNCHANGED <<searchVars, locatorVars, metaVars>>

RankEntries ==
    /\ call.kind = "rank" /\ ~call.done
    /\ call' = [call EXCEPT !.done = TRUE,
                  !.ranked = _rank_entries(call.entries, call.query, call.limit)]
    /\ UNCHANGED <<searchVars, locatorVars, metaVars>>

(***************************************************************************)
(* File paths: a path is the sequence of its components                    *)
(***************************************************************************)
BASE_DIR == <<<<"c", "h", "r", "o", "m", "e">>>>
HISTORY == <<"H", "i", "s", "t", "o", "r", "y">>
LOCAL_STATE == <<"L", "o", "c", "a", "l", " ", "S", "t", "a", "t", "e">>
\* os.path.join
join(dir, name) == Append(dir, name)
\* os.path.dirname, os.path.basename
dirname(path) == IF path = <<>> THEN <<>> ELSE SubSeq(path, 1, Len(path) - 1)
basename(path) == IF path = <<>> THEN <<>> ELSE path[Len(path)]

(***************************************************************************)
(* The history databases and _fetch_entries                                *)
(***************************************************************************)
\* the profile directories whose History files are searched, in the order
\* find_history_dbs lists them
AVATAR_PNG == <<"A", "v", "a", "t", "a", "r", " ", "I", "m", "a", "g", "e", ".", "p", "n", "g">>
Profiles == <<<<"D", "e", "f", "a", "u", "l", "t">>, <<"P", "r", "o", "f", "i", "l", "e", " ", "1">>>>
ProfileIx == 1..Len(Profiles)

MaxRows == 3     \* rows in all history files together
MaxLimit == 2    \* limits are 0..MaxLimit
MaxTmp == 1      \* no call starts with this many temporary directories left

\* url, title, visit_count and typed_count of the rows of a history file
Contents ==
    {[url |-> <<"h", "t", "t", "p", ":", "/", "/", "a", ".", "i", "o", "/">>, title |-> Some(<<"A", "b">>),
      visit_count |-> Some(2), typed_count |-> Some(1)],
     [url |-> <<"f", "t", "p", ":", "/", "/", "b", "/">>, title |-> None,
      visit_count |-> Some(1), typed_count |-> None]}
Times == {None, Some(1)}
Rows ==
    {[url |-> c.url, title |-> c.title, visit_count |-> c.visit_count,
      last_visit_time |-> t, typed_count |-> c.typed_count] :
        c \in Contents, t \in Times}
Queries == {<<>>, <<"a">>, <<"_">>}
Limits == 0..MaxLimit

\* SQLite's LIKE: % is any run of characters, _ any one character, and
\* ASCII letters match whatever their case
RECURSIVE Like(_, _)
Like(pat, s) ==
    IF pat = <<>> THEN s = <<>>
    ELSE IF Head(pat) = "%"
         THEN Like(Tail(pat), s) \/ (s # <<>> /\ Like(pat, Tail(s)))
         ELSE /\ s # <<>>
              /\ Head(pat) = "_" \/ LowerChar(Head(pat)) = LowerChar(Head(s))
              /\ Like(Tail(pat), Tail(s))
\* x LIKE pat for a column that may be NULL: NULL LIKE pat is not true
LikeNullable(x, pat) == x # None /\ Like(pat, x[1])

\* the rows of s that satisfy Keep, in order
RECURSIVE Filter(_, _, _)
Filter(s, i, keep) ==
    IF i > Len(s) THEN <<>>
    ELSE (IF keep[i] THEN <<s[i]>> ELSE <<>>) \o Filter(s, i + 1, keep)

\* ORDER BY last_visit_time DESC: NULL sorts below every value; rows of
\* equal last_visit_time come in table order
SqlTimeKey(r) ==
    IF r.last_visit_time = None THEN <<0>> ELSE <<1, r.last_visit_time[1]>>
OrderByTimeDesc(rows) == SortReverse(Keyed(rows, SqlTimeKey))

\* a query that leaves out ORDER BY
SelectRecentUnordered(rows, fetch_limit) == Take(rows, fetch_limit)

\* SELECT ... FROM urls ORDER BY last_visit_time DESC LIMIT ?
SelectRecent(rows, fetch_limit) == Take(OrderByTimeDesc(rows), fetch_limit)

\* SELECT ... FROM urls WHERE url LIKE ? OR title LIKE ?
\*   ORDER BY last_visit_time DESC LIMIT ?
SelectLike(rows, like, fetch_limit) ==
    LET keep == [i \in 1..Len(rows) |->
                    Like(like, rows[i].url) \/ LikeNullable(rows[i].title, like)]
    IN  Take(OrderByTimeDesc(Filter(rows, 1, keep)), fetch_limit)

FETCH_FACTOR == 5
FETCH_MIN == 50
FETCH_MAX == 500

\* tempfile.mkdtemp: a directory that did not exist
mkdtemp(tmp) == CHOOSE d \in 0..Cardinality(tmp) :
                    d \notin tmp /\ \A e \in 0..(d - 1) : e \in tmp

\* _safe_copy: the temporary directory is made, then the file is copied
\* into it; copying a file that does not exist raises OSError
_safe_copy(tmp, file) ==
    LET tmp_dir == mkdtemp(tmp)
    IN  [tmp |-> tmp \cup {tmp_dir},
         tmp_dir |-> tmp_dir,
         exc |-> IF file.state = "missing" THEN "OSError" ELSE "none"]

\* _fetch_entries: [tmp: the temporary directories left, exc: the exception
\* raised or "none", entries: the list returned]
_fetch_entries(tmp, file, query, limit) ==
    LET copied == _safe_copy(tmp, file)
    IN  IF copied.exc # "none"
        THEN \* raised before the try block was entered
             [tmp |-> copied.tmp, exc |-> copied.exc, entries |-> <<>>]
        ELSE LET \* finally: shutil.rmtree(tmp_dir, ignore_errors=True)
                 cleaned == copied.tmp \ {copied.tmp_dir}
             IN  IF file.state = "corrupt"
                 THEN [tmp |-> cleaned, exc |-> "sqlite3.Error",
                       entries |-> <<>>]
                 ELSE LET rows ==
                            IF query # <<>>
                            THEN SelectLike(file.rows, <<"%">> \o query \o <<"%">>,
                                   Min(Max(limit * FETCH_FACTOR, FETCH_MIN),
                                       FETCH_MAX))
                            ELSE SelectRecent(file.rows, limit)
                      IN  [tmp |-> cleaned, exc |-> "none",
                           entries |->
                             [i \in 1..Len(rows) |->
                                [url |-> rows[i].url,
                                 title |-> rows[i].title,
                                 visit_count |-> rows[i].visit_count,
                                 last_visit_time |-> rows[i].last_visit_time,
                                 typed_count |->
                                     Some(OrZero(rows[i].typed_count))]]]

(***************************************************************************)
(* search_history                                                          *)
(***************************************************************************)
\* the sources main.py passes: find_history_dbs' records, label and icon
\* set
Sources ==
    [i \in ProfileIx |->
        [path |-> join(join(BASE_DIR, Profiles[i]), HISTORY),
         profile_id |-> Profiles[i], profile_label |-> Profiles[i],
         profile_icon |-> Some(join(join(BASE_DIR, Profiles[i]), AVATAR_PNG))]]
\* the History file a path names
FileAt(files, path) ==
    LET i == CHOOSE k \in ProfileIx : Profiles[k] = basename(dirname(path))
    IN  files[i]

\* the loop over the sources, from source i on; acc holds the temporary
\* directories, combined_entries and errors so far
RECURSIVE SearchLoop(_, _, _, _, _, _)
SearchLoop(files, db_sources, i, query, limit, acc) ==
    IF i > Len(db_sources) THEN acc
    ELSE IF db_sources[i].path = <<>>
    THEN \* if not path: continue
         SearchLoop(files, db_sources, i + 1, query, limit, acc)
    ELSE LET source == db_sources[i]
             got == _fetch_entries(acc.tmp, FileAt(files, source.path), query, limit)
             tagged == [k \in 1..Len(got.entries) |->
                          [entry |-> got.entries[k],
                           profile_label |-> source.profile_label,
                           profile_icon |-> source.profile_icon,
                           profile_id |-> source.profile_id]]
         IN  SearchLoop(files, db_sources, i + 1, query, limit,
                 IF got.exc = "none"
                 THEN [acc EXCEPT !.tmp = got.tmp,
                                  !.combined = acc.combined \o tagged]
                 ELSE [acc EXCEPT !.tmp = got.tmp,
                                  !.errors = Append(acc.errors,
                                      [exc |-> got.exc, source |-> i])])

\* _rank_entries reads the row fields of the combined entries
RankCombined(combined, query, limit) ==
    LET flat == [k \in 1..Len(combined) |->
                   [url |-> combined[k].entry.url,
                    title |-> combined[k].entry.title,
                    visit_count |-> combined[k].entry.visit_count,
                    last_visit_time |-> combined[k].entry.last_visit_time,
                    typed_count |-> combined[k].entry.typed_count,
                    profile_label |-> combined[k].profile_label,
                    profile_icon |-> combined[k].profile_icon,
                    profile_id |-> combined[k].profile_id]]
    IN  _rank_entries(flat, query, limit)

NoError == [exc |-> "none", source |-> 0]

\* search_history: what the call did to the temporary directories, whether
\* it returned or raised, the tuples returned, the exception raised, and
\* the errors list at the end of the loop
search_history(tmp, files, db_sources, query, limit) ==
    IF db_sources = <<>>
    THEN [tmp |-> tmp, kind |-> "returned", result |-> <<>>,
          error |-> NoError, errors |-> <<>>]
    ELSE LET done == SearchLoop(files, db_sources, 1, query, limit,
                        [tmp |-> tmp, combined |-> <<>>, errors |-> <<>>])
         IN  IF done.combined = <<>> /\ done.errors # <<>>
             THEN [tmp |-> done.tmp, kind |-> "raised", result |-> <<>>,
                   error |-> done.errors[1], errors |-> done.errors]
             ELSE LET ranked == RankCombined(done.combined, query, limit)
                  IN  [tmp |-> done.tmp, kind |-> "returned",
                       result |->
                         [k \in 1..Len(ranked) |->
                            <<ranked[k].url, ranked[k].title,
                              ranked[k].visit_count,
                              ranked[k].last_visit_time,
                              ranked[k].profile_label, ranked[k].profile_icon,
                              ranked[k].profile_id>>],
                       error |-> NoError, errors |-> done.errors]

(***************************************************************************)
(* Searches, and the browser and the user changing the history files       *)
(***************************************************************************)
NoOutcome == [kind |-> "none", query |-> <<>>, limit |-> 0, result |-> <<>>,
              error |-> NoError, errors |-> <<>>, repeat |-> "first"]
EmptyFile == [state |-> "ok", rows |-> <<>>]

RECURSIVE TotalRows(_, _)
TotalRows(files, i) ==
    IF i > Len(Profiles) THEN 0 ELSE Len(files[i].rows) + TotalRows(files, i + 1)

\* a keyword query reaches search_history: a new one, or the last one again
Search ==
    /\ Cardinality(tmpDirs) < MaxTmp
    /\ \E q \in Queries, l \in Limits :
          /\ outcome.kind = "none" \/ (q = outcome.query /\ l = outcome.limit)
          /\ \E r \in {search_history(tmpDirs, db, Sources, q, l)} :
                /\ tmpDirs' = r.tmp
                /\ outcome' =
                     [kind |-> r.kind, query |-> q, limit |-> l,
                      result |-> r.result, error |-> r.error,
                      errors |-> r.errors,
                      repeat |->
                        IF outcome.kind = "none" THEN "first"
                        ELSE IF /\ r.kind = outcome.kind
                                /\ r.result = outcome.result
                                /\ r.error = outcome.error
                             THEN "same" ELSE "differs"]
    /\ UNCHANGED <<db, rankVars, locatorVars, metaVars>>

\* the caller has used what search_history returned or raised
Deliver ==
    /\ outcome.kind # "none"
    /\ outcome' = NoOutcome
    /\ UNCHANGED <<db, tmpDirs, rankVars, locatorVars, metaVars>>

\* the browser records a visit
Visit ==
    /\ outcome.kind = "none"
    /\ Cardinality(tmpDirs) < MaxTmp
    /\ TotalRows(db, 1) < MaxRows
    /\ \E i \in ProfileIx, r \in Rows :
          /\ db[i].state = "ok"
          /\ db' = [db EXCEPT ![i].rows = Append(@, r)]
    /\ UNCHANGED <<tmpDirs, outcome, rankVars, locatorVars, metaVars>>

\* a profile's History file is deleted
DeleteFile ==
    /\ outcome.kind = "none"
    /\ Cardinality(tmpDirs) < MaxTmp
    /\ \E i \in ProfileIx :
          /\ db[i].state # "missing"
          /\ db' = [db EXCEPT ![i] = [state |-> "missing", rows |-> <<>>]]
    /\ UNCHANGED <<tmpDirs, outcome, rankVars, locatorVars, metaVars>>

\* a profile's History file is overwritten with something SQLite cannot read
CorruptFile ==
    /\ outcome.kind = "none"
    /\ Cardinality(tmpDirs) < MaxTmp
    /\ \E i \in ProfileIx :
          /\ db[i].state # "corrupt"
          /\ db' = [db EXCEPT ![i] = [state |-> "corrupt", rows |-> <<>>]]
    /\ UNCHANGED <<tmpDirs, outcome, rankVars, locatorVars, metaVars>>

\* the browser creates a fresh History file
CreateFile ==
    /\ outcome.kind = "none"
    /\ Cardinality(tmpDirs) < MaxTmp
    /\ \E i \in ProfileIx :
          /\ db[i].state # "ok"
          /\ db' = [db EXCEPT ![i] = EmptyFile]
    /\ UNCHANGED <<tmpDirs, outcome, rankVars, locatorVars, metaVars>>

(***************************************************************************)
(* The configuration root on disk.  fs.entries is os.listdir(base_dir),    *)
(* fs.history the profiles whose History file exists, fs.files the other   *)
(* regular files (avatar pictures, bundled images), fs.state Local State:  *)
(* missing, malformed (not JSON), mistyped (JSON, but not an object: a     *)
(* list, null, a number) or valid with the three fields read.              *)
(***************************************************************************)
NoState == [kind |-> "missing", last_used |-> <<>>, last_active |-> <<>>,
            info_cache |-> <<>>]
NoEntry == [name |-> None, avatar_icon |-> None]

\* info_cache.get(profile_id, {}) or {}
InfoEntry(info_cache, profile_id) ==
    IF \E k \in 1..Len(info_cache) : info_cache[k].key = profile_id
    THEN LET k == CHOOSE j \in 1..Len(info_cache) :
                      info_cache[j].key = profile_id
         IN  [name |-> info_cache[k].name,
              avatar_icon |-> info_cache[k].avatar_icon]
    ELSE NoEntry

\* str.replace(old, ''): every occurrence of old removed, left to right
RECURSIVE RemoveAll(_, _)
RemoveAll(s, old) ==
    IF s = <<>> \/ old = <<>> THEN s
    ELSE IF StartsWith(s, old)
         THEN RemoveAll(SubSeq(s, Len(old) + 1, Len(s)), old)
         ELSE <<Head(s)>> \o RemoveAll(Tail(s), old)

ICON_CANDIDATES ==
    <<<<"G", "o", "o", "g", "l", "e", " ", "P", "r", "o", "f", "i", "l", "e", " ", "P", "i", "c", "t", "u", "r", "e", ".", "p", "n", "g">>,
      <<"G", "o", "o", "g", "l", "e", " ", "P", "r", "o", "f", "i", "l", "e", " ", "P", "i", "c", "t", "u", "r", "e">>,
      <<"P", "r", "o", "f", "i", "l", "e", " ", "P", "i", "c", "t", "u", "r", "e", ".", "p", "n", "g">>,
      <<"P", "r", "o", "f", "i", "l", "e", " ", "P", "i", "c", "t", "u", "r", "e">>,
      <<"p", "r", "o", "f", "i", "l", "e", "_", "p", "i", "c", "t", "u", "r", "e", ".", "p", "n", "g">>,
      <<"A", "v", "a", "t", "a", "r", " ", "I", "m", "a", "g", "e", ".", "j", "p", "g">>,
      <<"A", "v", "a", "t", "a", "r", " ", "I", "m", "a", "g", "e", ".", "p", "n", "g">>>>
THEME_PREFIX == <<"c", "h", "r", "o", "m", "e", ":", "/", "/", "t", "h", "e", "m", "e", "/">>
PNG == <<".", "p", "n", "g">>
\* os.path.join(os.path.dirname(__file__), 'images', ...)
IMAGES_DIR == <<<<"e", "x", "t">>, <<"i", "m", "a", "g", "e", "s">>>>
UNKNOWN_PROFILE == <<"U", "n", "k", "n", "o", "w", "n", " ", "p", "r", "o", "f", "i", "l", "e">>

_resolve_profile_icon(fsys, profile_dir, info_entry) ==
    IF profile_dir = <<>> THEN None
    ELSE IF \E k \in 1..Len(ICON_CANDIDATES) :
               join(profile_dir, ICON_CANDIDATES[k]) \in fsys.files
    THEN LET k == CHOOSE j \in 1..Len(ICON_CANDIDATES) :
                    /\ join(profile_dir, ICON_CANDIDATES[j]) \in fsys.files
                    /\ \A i \in 1..(j - 1) :
                          join(profile_dir, ICON_CANDIDATES[i]) \notin fsys.files
         IN  Some(join(profile_dir, ICON_CANDIDATES[k]))
    ELSE LET avatar_icon == OrEmpty(info_entry.avatar_icon)
             avatar_file == Lower(RemoveAll(avatar_icon, THEME_PREFIX))
             possible == join(IMAGES_DIR, avatar_file \o PNG)
         IN  IF avatar_icon # <<>> /\ possible \in fsys.files
             THEN Some(possible)
             ELSE None

\* data.get on a json.load result that is no dict: AttributeError, which
\* the except clause does not name
MetadataRaises(fsys, db_path) ==
    /\ db_path # <<>>
    /\ dirname(dirname(db_path)) = BASE_DIR
    /\ fsys.isdir
    /\ fsys.state.kind = "mistyped"

\* the body of get_profile_metadata, which lru_cache wraps
ReadProfileMetadata(fsys, db_path) ==
    IF db_path = <<>> THEN [label |-> <<>>, icon |-> None]
    ELSE LET profile_dir == dirname(db_path)
             profile_id == basename(profile_dir)
             base_dir == dirname(profile_dir)
             \* an unreadable or malformed Local State leaves info_entry = {}
             info_entry ==
                 IF base_dir = BASE_DIR /\ fsys.isdir /\ fsys.state.kind = "valid"
                 THEN InfoEntry(fsys.state.info_cache, profile_id)
                 ELSE NoEntry
             friendly == OrEmpty(info_entry.name)
             label == IF friendly # <<>> THEN friendly
                      ELSE IF profile_id # <<>> THEN profile_id
                      ELSE UNKNOWN_PROFILE
         IN  [label |-> label,
              icon |-> _resolve_profile_icon(fsys, profile_dir, info_entry)]

MAXSIZE == 32
NoValue == [label |-> <<>>, icon |-> None]

\* position of key in the cache, 0 if it is not cached
CachePos(c, key) ==
    IF \E k \in 1..Len(c) : c[k].key = key
    THEN CHOOSE k \in 1..Len(c) : c[k].key = key
    ELSE 0
Without(c, k) == SubSeq(c, 1, k - 1) \o SubSeq(c, k + 1, Len(c))

\* a cache that keeps a hit where it is: it evicts the entry stored
\* longest ago, not the one used longest ago
get_profile_metadata_fifo(c, fsys, db_path) ==
    LET k == CachePos(c, db_path)
    IN  IF k > 0
        THEN [cache |-> c, value |-> c[k].value, read |-> FALSE,
              exc |-> "none"]
        ELSE IF MetadataRaises(fsys, db_path)
        THEN [cache |-> c, value |-> NoValue, read |-> TRUE,
              exc |-> "AttributeError"]
        ELSE LET v == ReadProfileMetadata(fsys, db_path)
             IN  [cache |-> Take(<<[key |-> db_path, value |-> v]>> \o c, MAXSIZE),
                  value |-> v, read |-> TRUE, exc |-> "none"]

\* get_profile_metadata under @lru_cache(maxsize=32); the cache is a list,
\* most recently used entry first
get_profile_metadata(c, fsys, db_path) ==
    LET k == CachePos(c, db_path)
    IN  IF k > 0
        THEN [cache |-> <<c[k]>> \o Without(c, k), value |-> c[k].value,
              read |-> FALSE, exc |-> "none"]
        ELSE IF MetadataRaises(fsys, db_path)
        THEN \* lru_cache stores nothing when the call raises
             [cache |-> c, value |-> NoValue, read |-> TRUE,
              exc |-> "AttributeError"]
        ELSE LET v == ReadProfileMetadata(fsys, db_path)
             IN  [cache |-> Take(<<[key |-> db_path, value |-> v]>> \o c, MAXSIZE),
                  value |-> v, read |-> TRUE, exc |-> "none"]

(***************************************************************************)
(* _preferred_profiles and _list_history_dbs_in_dir                        *)
(***************************************************************************)
\* the list with every element kept at its first occurrence only
RECURSIVE Dedupe(_, _)
Dedupe(s, ordered) ==
    IF s = <<>> THEN ordered
    ELSE Dedupe(Tail(s),
                IF \E k \in 1..Len(ordered) : ordered[k] = Head(s)
                THEN ordered ELSE Append(ordered, Head(s)))

RECURSIVE Truthy(_)
Truthy(s) ==
    IF s = <<>> THEN <<>>
    ELSE (IF Head(s) # <<>> THEN <<Head(s)>> ELSE <<>>) \o Truthy(Tail(s))

Keys(info_cache) == [k \in 1..Len(info_cache) |-> info_cache[k].key]

\* [exc: the exception that escapes, ordered: the list returned]
_preferred_profiles(fsys) ==
    IF fsys.state.kind = "mistyped"
    THEN \* data.get raises AttributeError, which is not caught
         [exc |-> "AttributeError", ordered |-> <<>>]
    ELSE IF fsys.state.kind # "valid"
    THEN \* OSError, ValueError: ordered stays empty
         [exc |-> "none", ordered |-> <<>>]
    ELSE LET entries == Truthy(<<fsys.state.last_used>>)
                          \o Truthy(fsys.state.last_active)
                          \o Keys(fsys.state.info_cache)
         IN  [exc |-> "none", ordered |-> Dedupe(entries, <<>>)]

\* code point order of the characters of the names
CharOrder ==
    <<" ", ".", "0", "1", "2", "3", "4", "5", "6", "7", "8", "9", "A",
      "B", "C", "D", "E", "F", "G", "H", "I", "J", "K", "L", "M", "N",
      "O", "P", "Q", "R", "S", "T", "U", "V", "W", "X", "Y", "Z", "_",
      "a", "b", "c", "d", "e", "f", "g", "h", "i", "j", "k", "l", "m",
      "n", "o", "p", "q", "r", "s", "t", "u", "v", "w", "x", "y", "z">>
CodeRank(c) == CHOOSE k \in 1..Len(CharOrder) : CharOrder[k] = c
RECURSIVE StrLess(_, _)
StrLess(a, b) ==
    IF b = <<>> THEN FALSE
    ELSE IF a = <<>> THEN TRUE
    ELSE IF Head(a) # Head(b) THEN CodeRank(Head(a)) < CodeRank(Head(b))
    ELSE StrLess(Tail(a), Tail(b))
\* sorted(names)
RECURSIVE Sorted(_)
Sorted(names) ==
    IF names = {} THEN <<>>
    ELSE LET least == CHOOSE n \in names :
                         \A m \in names \ {n} : StrLess(n, m)
         IN  <<least>> \o Sorted(names \ {least})

DEFAULT == <<"D", "e", "f", "a", "u", "l", "t">>
GUEST_PROFILE == <<"G", "u", "e", "s", "t", " ", "P", "r", "o", "f", "i", "l", "e">>
PROFILE_PREFIX == <<"P", "r", "o", "f", "i", "l", "e">>
USER_PREFIX == <<"u", "s", "e", "r">>
ProfileDirName(entry) ==
    \/ entry \in {DEFAULT, GUEST_PROFILE}
    \/ StartsWith(entry, PROFILE_PREFIX)
    \/ StartsWith(entry, USER_PREFIX)

HistoryPath(profile_id) == join(join(BASE_DIR, profile_id), HISTORY)
\* os.path.exists of a History path under the root
Exists(fsys, path) ==
    /\ fsys.isdir
    /\ basename(path) = HISTORY
    /\ dirname(dirname(path)) = BASE_DIR
    /\ basename(dirname(path)) \in fsys.history

\* add_candidate for each profile id of ids, in order
RECURSIVE AddCandidates(_, _)
AddCandidates(ids, candidates) ==
    IF ids = <<>> THEN candidates
    ELSE LET path == HistoryPath(Head(ids))
         IN  AddCandidates(Tail(ids),
                 IF \E k \in 1..Len(candidates) : candidates[k].path = path
                 THEN candidates
                 ELSE Append(candidates,
                             [profile_id |-> Head(ids), path |-> path]))

\* the loop that keeps the candidates whose file exists; every one kept
\* costs a get_profile_metadata call
RECURSIVE CollectDbs(_, _, _, _)
CollectDbs(fsys, candidates, c, found) ==
    IF candidates = <<>> THEN [cache |-> c, dbs |-> found, exc |-> "none"]
    ELSE IF ~Exists(fsys, Head(candidates).path)
    THEN CollectDbs(fsys, Tail(candidates), c, found)
    ELSE LET meta == get_profile_metadata(c, fsys, Head(candidates).path)
         IN  IF meta.exc # "none"
             THEN [cache |-> meta.cache, dbs |-> <<>>, exc |-> meta.exc]
             ELSE
             CollectDbs(fsys, Tail(candidates), meta.cache,
                 Append(found,
                        [path |-> Head(candidates).path,
                         profile_id |-> Head(candidates).profile_id,
                         profile_label |-> meta.value.label,
                         profile_icon |-> meta.value.icon]))

\* [cache: the metadata cache afterwards, dbs: the list returned, exc: the
\* exception that escapes instead]
_list_history_dbs_in_dir(c, fsys) ==
    IF ~fsys.isdir THEN [cache |-> c, dbs |-> <<>>, exc |-> "none"]
    ELSE LET ordered == _preferred_profiles(fsys)
             preferred == AddCandidates(ordered.ordered, <<>>)
             listed == Sorted({e \in fsys.entries : ProfileDirName(e)})
         IN  IF ordered.exc # "none"
             THEN [cache |-> c, dbs |-> <<>>, exc |-> ordered.exc]
             ELSE CollectDbs(fsys, AddCandidates(listed, preferred), c, <<>>)

(***************************************************************************)
(* Discovery applied to drawn configuration roots                          *)
(***************************************************************************)
MaxActive == 2   \* length of last_active_profiles
MaxInfo == 2     \* number of info_cache keys
WORK == <<"W", "o", "r", "k">>
PROFILE_1 == <<"P", "r", "o", "f", "i", "l", "e", " ", "1">>
DirNames == {DEFAULT, PROFILE_1, WORK}
\* what last_used and last_active_profiles may hold: '' is skipped
StateIds == DirNames \cup {<<>>}
DistinctSeqs(S, n) ==
    {q \in SeqsUpTo(S, n) : \A i, j \in 1..Len(q) : q[i] = q[j] => i = j}
LocalStates ==
    {NoState, [NoState EXCEPT !.kind = "malformed"],
     [NoState EXCEPT !.kind = "mistyped"]}
    \cup {[kind |-> "valid", last_used |-> u, last_active |-> a,
           info_cache |-> [k \in 1..Len(ks) |->
                             [key |-> ks[k], name |-> None,
                              avatar_icon |-> None]]] :
            u \in StateIds, a \in SeqsUpTo(StateIds, MaxActive),
            ks \in DistinctSeqs(DirNames, MaxInfo)}
NoRoot == [isdir |-> FALSE, entries |-> {}, history |-> {}, files |-> {},
           state |-> NoState]

NoDbs == [done |-> FALSE, list |-> <<>>, exc |-> "none"]
NoRet == [kind |-> "none", path |-> <<>>, value |-> NoValue, read |-> FALSE,
          exc |-> "none", prev |-> None, since |-> 0]
NoHist == [last |-> None, since |-> {}, other |-> 0]

ListHistoryDbs ==
    /\ ~dbs.done
    /\ \E r \in {_list_history_dbs_in_dir(cache, fs)} :
          /\ dbs' = [done |-> TRUE, list |-> r.dbs, exc |-> r.exc]
          /\ cache' = r.cache
    /\ UNCHANGED <<fs, ret, hist, searchVars, rankVars>>

(***************************************************************************)
(* Metadata lookups while the watched profile changes on disk              *)
(***************************************************************************)
NumOthers == 33  \* profiles besides the watched one, looked up in turn
Digit == <<"0", "1", "2", "3", "4", "5", "6", "7", "8", "9">>
RECURSIVE Decimal(_)
Decimal(n) ==
    IF n < 10 THEN <<Digit[n + 1]>>
    ELSE Decimal(n \div 10) \o <<Digit[(n % 10) + 1]>>
OtherPath(k) == HistoryPath(PROFILE_PREFIX \o <<" ">> \o Decimal(k))
WatchedPath == HistoryPath(DEFAULT)
WatchedPicture == join(join(BASE_DIR, DEFAULT), ICON_CANDIDATES[3])
BundledAvatar == join(IMAGES_DIR, <<"a", "v", "a", "t", "a", "r", "_", "g", "e", "n", "e", "r", "i", "c", ".", "p", "n", "g">>)
FriendlyNames == {None, Some(<<"A", "l">>)}
WatchedDisk(name, files) ==
    [isdir |-> TRUE, entries |-> {DEFAULT}, history |-> {DEFAULT},
     files |-> files,
     state |-> [kind |-> "valid", last_used |-> DEFAULT, last_active |-> <<>>,
                info_cache |-> <<[key |-> DEFAULT, name |-> name,
                                  avatar_icon |-> Some(<<"c", "h", "r", "o", "m", "e", ":", "/", "/", "t", "h", "e", "m", "e", "/", "A", "V", "A", "T", "A", "R", "_", "G", "E", "N", "E", "R", "I", "C">>)]>>]]

LookupWatched ==
    /\ \E r \in {get_profile_metadata(cache, fs, WatchedPath)} :
          /\ cache' = r.cache
          /\ ret' = [kind |-> "watched", path |-> WatchedPath,
                     value |-> r.value, read |-> r.read, exc |-> r.exc,
                     prev |-> hist.last, since |-> Cardinality(hist.since)]
          /\ hist' = IF r.exc # "none" THEN hist
                     ELSE [hist EXCEPT !.last = Some(r.value), !.since = {}]
    /\ UNCHANGED <<fs, dbs, searchVars, rankVars>>

\* the next of the other profiles is looked up
LookupOther ==
    /\ \E k \in {(hist.other % NumOthers) + 1} :
       \E r \in {get_profile_metadata(cache, fs, OtherPath(k))} :
          /\ cache' = r.cache
          /\ ret' = [NoRet EXCEPT !.kind = "other", !.path = OtherPath(k),
                                  !.value = r.value, !.read = r.read,
                                  !.exc = r.exc]
          /\ hist' = [hist EXCEPT !.since = @ \cup {k}, !.other = k]
    /\ UNCHANGED <<fs, dbs, searchVars, rankVars>>

\* the other profile looked up last is looked up again
LookupOtherAgain ==
    /\ hist.other > 0
    /\ \E r \in {get_profile_metadata(cache, fs, OtherPath(hist.other))} :
          /\ cache' = r.cache
          /\ ret' = [NoRet EXCEPT !.kind = "other",
                                  !.path = OtherPath(hist.other),
                                  !.value = r.value, !.read = r.read,
                                  !.exc = r.exc]
          /\ hist' = [hist EXCEPT !.since = @ \cup {hist.other}]
    /\ UNCHANGED <<fs, dbs, searchVars, rankVars>>

\* the user renames the watched profile, or clears its name
RenameProfile ==
    /\ \E n \in FriendlyNames :
          /\ n # fs.state.info_cache[1].name
          /\ fs' = WatchedDisk(n, fs.files)
    /\ UNCHANGED <<dbs, metaVars, searchVars, rankVars>>

\* the watched profile's picture file appears or disappears
TogglePicture ==
    /\ fs' = [fs EXCEPT !.files =
                IF WatchedPicture \in @ THEN @ \ {WatchedPicture}
                ELSE @ \cup {WatchedPicture}]
    /\ UNCHANGED <<dbs, metaVars, searchVars, rankVars>>

(***************************************************************************)
(* Specifications                                                          *)
(***************************************************************************)
InitSearch ==
    /\ db = [i \in ProfileIx |-> EmptyFile]
    /\ tmpDirs = {}
    /\ outcome = NoOutcome
    /\ call = NoCall
    /\ fs = NoRoot
    /\ dbs = NoDbs
    /\ cache = <<>>
    /\ ret = NoRet
    /\ hist = NoHist
NextSearch ==
    Search \/ Deliver \/ Visit \/ DeleteFile \/ CorruptFile \/ CreateFile
SpecSearch == InitSearch /\ [][NextSearch]_vars

InitRank ==
    /\ \/ \E u \in ScoreUrls, t \in ScoreTitles, v \in VisitCounts,
             ty \in TypedCounts, q \in ScoreQueries :
             call = [NoCall EXCEPT !.kind = "score", !.url = u, !.title = t,
                                   !.visit_count = v, !.typed_count = ty,
                                   !.query = q]
       \/ \E n \in 0..MaxEntries :
          \E es \in [1..n -> RankRows], q \in RankQueries,
             l \in 0..MaxRankLimit :
             call = [NoCall EXCEPT !.kind = "rank", !.entries = es,
                                   !.query = q, !.limit = l]
    /\ db = [i \in ProfileIx |-> EmptyFile]
    /\ tmpDirs = {}
    /\ outcome = NoOutcome
    /\ fs = NoRoot
    /\ dbs = NoDbs
    /\ cache = <<>>
    /\ ret = NoRet
    /\ hist = NoHist
NextRank == ScoreRow \/ RankEntries
SpecRank == InitRank /\ [][NextRank]_vars

InitLocator ==
    /\ \E d \in BOOLEAN :
       \E E \in (IF d THEN SUBSET DirNames ELSE {{}}) :
       \E H \in SUBSET E :
       \E st \in (IF d THEN LocalStates ELSE {NoState}) :
          fs = [isdir |-> d, entries |-> E, history |-> H, files |-> {},
                state |-> st]
    /\ dbs = NoDbs
    /\ cache = <<>>
    /\ ret = NoRet
    /\ hist = NoHist
    /\ db = [i \in ProfileIx |-> EmptyFile]
    /\ tmpDirs = {}
    /\ outcome = NoOutcome
    /\ call = NoCall
NextLocator == ListHistoryDbs
SpecLocator == InitLocator /\ [][NextLocator]_vars

InitMeta ==
    /\ fs = WatchedDisk(None, {BundledAvatar})
    /\ cache = <<>>
    /\ ret = NoRet
    /\ hist = NoHist
    /\ dbs = NoDbs
    /\ db = [i \in ProfileIx |-> EmptyFile]
    /\ tmpDirs = {}
    /\ outcome = NoOutcome
    /\ call = NoCall
NextMeta ==
    \/ LookupWatched \/ LookupOther \/ LookupOtherAgain
    \/ RenameProfile \/ TogglePicture
SpecMeta == InitMeta /\ [][NextMeta]_vars

(***************************************************************************)
(* Properties of _score_row and _rank_entries (SpecRank)                   *)
(***************************************************************************)
Highest(S) == CHOOSE m \in S : \A n \in S : n <= m
Tier(applies, points) == IF applies THEN {points} ELSE {}
Popularity(c) ==
      Min(OrZero(c.typed_count), 20) * 15 + Min(OrZero(c.visit_count), 50) * 2

\* C6: for a non-empty lower-cased query the score is T + H + P plus the
\* popularity part, where T, H and P are each the single highest tier that
\* applies to the title, the host and the path; tiers of one field are never
\* added together, null counts are 0, the popularity part is at most 400,
\* and 25 typed visits (300) outweigh 1000 plain visits (100).
ScoreIsBestTierPerField ==
    (call.kind = "score" /\ call.done) =>
        LET t == Lower(OrEmpty(call.title))
            host == Lower(urlparse(call.url).netloc)
            path == Lower(urlparse(call.url).path)
            q == call.query
            T == Highest({0} \cup Tier(StartsWith(t, q), 400)
                             \cup Tier(_word_startswith(t, q), 260)
                             \cup Tier(Contains(t, q), 80))
            H == Highest({0} \cup Tier(StartsWith(host, q), 350)
                             \cup Tier(Contains(host, q), 140))
            P == Highest({0} \cup Tier(StartsWith(path, q), 120)
                             \cup Tier(_word_startswith(path, q), 90)
                             \cup Tier(Contains(path, q), 40))
        IN  /\ call.score = T + H + P + Popularity(call)
            /\ call.score - (T + H + P) <= 400
            /\ (call.typed_count = Some(25) /\ call.visit_count = Some(0))
                  => call.score - (T + H + P) = 300
            /\ (call.typed_count = Some(0) /\ call.visit_count = Some(1000))
                  => call.score - (T + H + P) = 100

\* a title and a host that both start with the query and contain it, a path
\* with a token that starts with it, and a typed count above the cap
ScoreWitness ==
    /\ call.kind = "score" /\ call.done
    /\ call.url = <<"h", "t", "t", "p", ":", "/", "/", "g", "i", "t", "h", "u", "b", ".", "c", "o", "m", "/", "m", "y", "/", "g", "i", "t", "-", "r", "e", "p", "o">>
    /\ call.title = Some(<<"G", "i", "t", "H", "u", "b">>)
    /\ call.query = <<"g", "i", "t">>
    /\ call.typed_count = Some(25) /\ call.visit_count = None
    /\ call.score = 400 + 350 + 90 + 300

\* C5: for a non-empty query every entry _rank_entries returns has a
\* non-negative score, the scores never increase along the list, and entries
\* of equal score come with last_visit_time (None as 0) never increasing.
RankedByScoreThenRecency ==
    (call.kind = "rank" /\ call.done /\ call.query # <<>>) =>
        LET sc(i) == ScoreOf(call.ranked[i], Lower(call.query))
            tm(i) == OrZero(call.ranked[i].last_visit_time)
        IN  /\ \A i \in 1..Len(call.ranked) : sc(i) >= 0
            /\ \A i, j \in 1..Len(call.ranked) :
                  i < j => /\ sc(i) >= sc(j)
                           /\ sc(i) = sc(j) => tm(i) >= tm(j)

\* two entries of identical score given with last_visit_time 100 before 200
\* come back with 200 first
RankTieWitness ==
    /\ call.kind = "rank" /\ call.done /\ call.query # <<>>
    /\ Len(call.entries) = 2 /\ Len(call.ranked) = 2
    /\ call.entries[1].last_visit_time = Some(100)
    /\ call.entries[2].last_visit_time = Some(200)
    /\ call.entries[1].url = call.entries[2].url
    /\ call.ranked = <<call.entries[2], call.entries[1]>>

(***************************************************************************)
(* Properties of search_history (SpecSearch).  outcome is set by Search    *)
(* and cleared before the history files change again, so a formula may     *)
(* compare it with db.                                                     *)
(***************************************************************************)
Healthy == {i \in ProfileIx : db[i].state = "ok"}
\* every row of the successfully read sources: <<source, position in table>>
Available == {<<i, k>> : i \in Healthy, k \in 1..MaxRows + 1} \cap
             UNION {{<<i, k>> : k \in 1..Len(db[i].rows)} : i \in ProfileIx}
RowAt(p) == db[p[1]].rows[p[2]]
\* the tuple search_history returns for a row of a source
TupleOf(p) ==
    <<RowAt(p).url, RowAt(p).title, RowAt(p).visit_count,
      RowAt(p).last_visit_time, Sources[p[1]].profile_label,
      Sources[p[1]].profile_icon, Sources[p[1]].profile_id>>
Occurrences(seq, x) == Cardinality({k \in 1..Len(seq) : seq[k] = x})

\* C1: after every _fetch_entries call, whatever way it ended, the
\* temporary directory _safe_copy made is gone: no sequence of searches
\* leaves a temporary directory behind.
NoTemporaryDirectoryLeft == tmpDirs = {}

\* C2: search_history raises only if the fetch of every source failed, and
\* then raises the first failure recorded; if one source was fetched
\* without error, whatever number of rows it gave, nothing is raised.
RaisesOnlyIfEverySourceFailed ==
    outcome.kind = "raised" =>
        /\ Healthy = {}
        /\ outcome.error = outcome.errors[1]

\* the rows whose URL or title contains the query, letter case aside
Matching(q) ==
    {p \in Available :
        \/ q = <<>>
        \/ Contains(Lower(RowAt(p).url), Lower(q))
        \/ Contains(Lower(OrEmpty(RowAt(p).title)), Lower(q))}

\* C3: the number of tuples returned is min(limit, N), N the number of rows
\* of the successfully read sources that are available (empty query) or
\* whose URL or title contains the query.
ResultCountIsMinOfLimitAndMatches ==
    outcome.kind = "returned" =>
        Len(outcome.result) =
            Min(outcome.limit, Cardinality(Matching(outcome.query)))

\* the n greatest of a set of rows' times, greatest first
RECURSIVE GreatestTimes(_, _)
GreatestTimes(ps, n) ==
    IF ps = {} \/ n = 0 THEN <<>>
    ELSE LET top == CHOOSE p \in ps : \A o \in ps :
                      OrZero(RowAt(o).last_visit_time)
                          <= OrZero(RowAt(p).last_visit_time)
         IN  <<OrZero(RowAt(top).last_visit_time)>>
                 \o GreatestTimes(ps \ {top}, n - 1)

\* C4: for an empty query the tuples returned are the `limit` rows of
\* greatest last_visit_time (None as 0) among all rows of the successfully
\* read sources, greatest first; the per-source LIMIT loses none of them.
EmptyQueryGivesMostRecent ==
    (outcome.kind = "returned" /\ outcome.query = <<>>) =>
        /\ [k \in 1..Len(outcome.result) |-> OrZero(outcome.result[k][4])]
              = GreatestTimes(Available, outcome.limit)
        /\ \A k \in 1..Len(outcome.result) :
              Occurrences(outcome.result, outcome.result[k])
                 <= Cardinality({p \in Available :
                                    TupleOf(p) = outcome.result[k]})

\* the most recent row is the last of its table and the limit is 1
EmptyQueryWitness ==
    /\ outcome.kind = "returned" /\ outcome.query = <<>> /\ outcome.limit = 1
    /\ Len(db[1].rows) = 1 /\ db[1].rows[1].last_visit_time = None
    /\ Len(db[2].rows) = 2
    /\ db[2].rows[1].last_visit_time = None
    /\ db[2].rows[2].last_visit_time = Some(1)
    /\ outcome.result = <<TupleOf(<<2, 2>>)>>

\* C8: a source whose file does not exist when search_history reaches it
\* is skipped silently: it is not recorded as a failure and cannot make
\* search_history raise.
MissingSourceSkippedSilently ==
    outcome.kind # "none" =>
        /\ \A k \in 1..Len(outcome.errors) :
              db[outcome.errors[k].source].state # "missing"
        /\ (\A i \in ProfileIx : db[i].state \in {"ok", "missing"})
              => outcome.kind = "returned"

\* the combined pool in arrival order: source order, then the order the
\* rows were fetched in
RECURSIVE Arrivals(_, _, _)
Arrivals(i, query, limit) ==
    IF i > Len(Sources) THEN <<>>
    ELSE LET got == _fetch_entries({}, db[i], query, limit)
         IN  [k \in 1..Len(got.entries) |->
                 [row |-> got.entries[k], source |-> i]]
             \o Arrivals(i + 1, query, limit)
SortKey(a, query) ==
    IF query = <<>> THEN <<OrZero(a.row.last_visit_time)>>
    ELSE <<ScoreOf(a.row, Lower(query)), OrZero(a.row.last_visit_time)>>
\* the arrivals by key, greatest first, equal keys in arrival order
RECURSIVE ByKeyThenArrival(_, _, _)
ByKeyThenArrival(pool, left, query) ==
    IF left = {} THEN <<>>
    ELSE LET first == CHOOSE k \in left : \A o \in left \ {k} :
                        \/ KeyLess(SortKey(pool[o], query),
                                   SortKey(pool[k], query))
                        \/ /\ SortKey(pool[o], query) = SortKey(pool[k], query)
                           /\ k < o
         IN  <<pool[first]>> \o ByKeyThenArrival(pool, left \ {first}, query)
ArrivalTuple(a) ==
    <<a.row.url, a.row.title, a.row.visit_count, a.row.last_visit_time,
      Sources[a.source].profile_label, Sources[a.source].profile_icon,
      Sources[a.source].profile_id>>

\* C9: the same search run again on unchanged files gives the same ordered
\* output, and entries that tie on (score, last_visit_time), or on
\* last_visit_time for an empty query, come in the order they arrived in
\* the combined pool: source order, then fetch order within a source.
TiesInArrivalOrder ==
    /\ outcome.repeat # "differs"
    /\ outcome.kind = "returned" =>
          LET pool == Arrivals(1, outcome.query, outcome.limit)
              expected == ByKeyThenArrival(pool, 1..Len(pool), outcome.query)
          IN  outcome.result =
                 [k \in 1..Min(outcome.limit, Len(expected)) |->
                     ArrivalTuple(expected[k])]

\* a search run twice whose first two results tie on the key, the first
\* from the first source and the second from the second
TieWitness ==
    /\ outcome.kind = "returned" /\ outcome.repeat = "same"
    /\ outcome.query # <<>> /\ Len(outcome.result) = 2
    /\ outcome.result[1][7] = Profiles[1] /\ outcome.result[2][7] = Profiles[2]
    /\ outcome.result[1][4] = outcome.result[2][4]
    /\ outcome.result[1][1] = outcome.result[2][1]

(***************************************************************************)
(* Properties of _list_history_dbs_in_dir (SpecLocator)                    *)
(***************************************************************************)
\* the profile ids Local State names, in the order it is read
StateOrder ==
    IF fs.state.kind # "valid" THEN <<>>
    ELSE <<fs.state.last_used>> \o fs.state.last_active
            \o [k \in 1..Len(fs.state.info_cache) |->
                   fs.state.info_cache[k].key]
FromState(id) == \E k \in 1..Len(StateOrder) : StateOrder[k] = id
FirstAt(id) == CHOOSE k \in 1..Len(StateOrder) :
                  /\ StateOrder[k] = id
                  /\ \A j \in 1..(k - 1) : StateOrder[j] # id
ListedDirs == {e \in fs.entries : ProfileDirName(e) /\ e \in fs.history}

\* C7: _list_history_dbs_in_dir returns a list in which (1) the profile ids
\* of Local State come in the order last_used, last_active_profiles,
\* info_cache keys, each once, all before the profiles found by listing
\* only; (2) no two entries have the same path; (3) every path exists; and
\* when Local State is missing or malformed the list is exactly the
\* name-matching subdirectories whose History file exists.
LocatorOrderAndFallback ==
    dbs.done =>
        /\ dbs.exc = "none"
        /\ \A j, k \in 1..Len(dbs.list) :
              j < k =>
                 /\ dbs.list[j].profile_id # dbs.list[k].profile_id
                 /\ dbs.list[j].path # dbs.list[k].path
                 /\ FromState(dbs.list[k].profile_id) =>
                       /\ FromState(dbs.list[j].profile_id)
                       /\ FirstAt(dbs.list[j].profile_id)
                             < FirstAt(dbs.list[k].profile_id)
        /\ \A k \in 1..Len(dbs.list) :
              /\ dbs.list[k].path = HistoryPath(dbs.list[k].profile_id)
              /\ dbs.list[k].profile_id \in fs.history
        /\ fs.state.kind # "valid" =>
              /\ {dbs.list[k].profile_id : k \in 1..Len(dbs.list)} = ListedDirs
              /\ Len(dbs.list) = Cardinality(ListedDirs)

(***************************************************************************)
(* Properties of get_profile_metadata (SpecMeta).  ret.prev is the value   *)
(* the previous call with the watched path returned, ret.since the number  *)
(* of distinct other paths looked up since that call, ret.read whether     *)
(* this call read Local State.                                             *)
(***************************************************************************)
\* C10 as stated: once get_profile_metadata(p) has returned a value, every
\* later call with p returns that value without reading Local State, for
\* any number of other paths looked up in between and any change on disk.
MemoizedForProcessLifetime ==
    (ret.kind = "watched" /\ ret.prev # None) =>
        /\ ret.value = ret.prev[1]
        /\ ~ret.read

\* C10 amended: once get_profile_metadata(p) has returned a value, a later
\* call with p returns that value without reading Local State whatever
\* changed on disk, as long as fewer than 32 distinct other paths were
\* looked up since the most recent call with p.
MemoizedWhileRecentlyUsed ==
    (ret.kind = "watched" /\ ret.prev # None /\ ret.since < MAXSIZE) =>
        /\ ret.value = ret.prev[1]
        /\ ~ret.read

\* 31 other paths later and with the profile changed on disk, the call
\* still answers from the cache, with the value the disk no longer gives
StaleHitWitness ==
    /\ ret.kind = "watched" /\ ret.prev # None
    /\ ret.since = MAXSIZE - 1
    /\ ~ret.read
    /\ ret.value = ret.prev[1]
    /\ ReadProfileMetadata(fs, WatchedPath) # ret.value

=============================================================================
